---- MODULE Spec2Model ----
(***************************************************************************)
(* Model of patcher.py: the resource-pack patcher's session pipeline       *)
(*   resolve target -> make_backup -> clear_folder_contents ->             *)
(*   [mkdtemp -> download_zip -> extract_zip -> copy_top_level_folders]    *)
(*   -> rmtree(tmpdir).                                                    *)
(* The file system (target directory, sibling backup directories, the     *)
(* temporary staging directory) is part of the state.  Every library call  *)
(* that can raise (os.makedirs, shutil.copytree, os.listdir, shutil.rmtree,*)
(* os.remove, requests.get, ZipFile.extractall, shutil.copy2) has its      *)
(* failure outcome as a nondeterministic choice; what happens to the       *)
(* exception (caught and printed, or propagating out of main) is the       *)
(* code's.  Sessions run one after the other on the same file system.      *)
(* Directory trees are kept at the level the code works on: the top-level  *)
(* entries of the target, of a backup and of the extraction root.  The      *)
(* prompts (and their exit(1) on an invalid answer) come before the         *)
(* pipeline and are the choice of `action` in main_start.                   *)
(***************************************************************************)
EXTENDS Integers, Sequences, FiniteSets, TLC

\* ---------------------------------------------------------------- bounds
\* number of runs of main() on the same file system
MaxSessions == 2
\* number of library calls that fail (raise) over all the runs
MaxFaults == 2
\* longest content-length text tried, and most bytes a response body carries
MaxHeaderLen == 2
MaxBody == 7

\* ------------------------------------------------------------ directory trees
\* names of top-level entries that occur under the target or in an archive
Names == {"vanilla", "packA", "notes"}

\* ver: 0 = content that was there before any patch, p = content of patch p;
\* whole = FALSE: the entry exists but its content is no longer that of any
\* version (rmtree or copytree stopped half way, or a file was copied into it)
Absent == [kind |-> "absent", ver |-> 0, whole |-> TRUE]
Dir(v) == [kind |-> "dir", ver |-> v, whole |-> TRUE]
File(v) == [kind |-> "file", ver |-> v, whole |-> TRUE]
Damaged(e) == [e EXCEPT !.whole = FALSE]

EmptyTree == [n \in Names |-> Absent]
Present(t) == {n \in Names : t[n] # Absent}
Restrict(t, S) == [n \in Names |-> IF n \in S THEN t[n] ELSE Absent]

\* the keys of PATCHES; "4" is the clear-only choice of prompt_action
PatchKeys == {"1", "2", "3"}
Actions == PatchKeys \cup {"4"}

\* the members of the zip served for each patch, each with the path stored in
\* the archive (a sequence of components; "" first is a leading slash) and the
\* top-level entry it belongs to
Member(p, e) == [path |-> p, entry |-> e]
ZipMembers(a) ==
    CASE a = "1" -> {Member(<<"packA">>, Dir(1)), Member(<<"notes">>, File(1))}
      [] a = "2" -> {Member(<<"packA">>, Dir(2)), Member(<<"", "vanilla">>, Dir(2))}
      [] OTHER   -> {Member(<<"vanilla">>, Dir(3)), Member(<<"..", "notes">>, File(3))}

\* a path that resolves outside the directory it is joined to: absolute, or
\* climbing above it with ".."
Escapes(p) ==
    /\ Len(p) > 0
    /\ \/ p[1] = ""
       \/ \E i \in 1..Len(p) :
            Cardinality({j \in 1..i : p[j] = ".."}) >
            Cardinality({j \in 1..i : p[j] \notin {"", ".", ".."}})

\* ZipFile._extract_member: empty, "." and ".." components are dropped from the
\* member's name before it is joined to the destination directory
Sanitize(p) == SelectSeq(p, LAMBDA c : c \notin {"", ".", ".."})

\* extraction that joins the stored name to the destination as it is
WrittenPath_Raw(m) == m.path

\* the path, relative to dest_dir, z.extractall writes a member to
WrittenPath(m) == Sanitize(m.path)

\* the top-level content of dest_dir after the members M were extracted
ExtractAll(M) ==
    [n \in Names |->
        LET here == {m \in M : LET w == WrittenPath(m)
                                IN Len(w) > 0 /\ ~Escapes(w) /\ w[1] = n}
        IN IF here = {} THEN Absent ELSE (CHOOSE m \in here : TRUE).entry]

\* whether extracting the members M wrote anything outside dest_dir
WroteOutside(M) == \E m \in M : Escapes(WrittenPath(m))

\* top-level content of the extraction of the zip served for each patch
\* (resource-pack folders, and for patches 1 and 3 also a loose file)
Archive(a) == ExtractAll(ZipMembers(a))

\* contents of the target directory before the first run
InitTrees ==
    { EmptyTree,
      [n \in Names |-> IF n = "vanilla" THEN Dir(0) ELSE Absent],
      [n \in Names |-> CASE n = "vanilla" -> Dir(0)
                         [] n = "packA" -> Dir(0)
                         [] OTHER -> Absent],
      [n \in Names |-> CASE n = "notes" -> Dir(0)
                         [] n = "vanilla" -> File(0)
                         [] OTHER -> Absent] }

\* value of main's `backup` when make_backup returned None
None == -1
\* second-resolution time stamps: a run reads the clock once, so MaxSessions
\* runs use at most MaxSessions different seconds
Stamps == 0..(MaxSessions - 1)
NoBackupDir == [state |-> "absent", tree |-> EmptyTree]
NoTmp == [dir |-> FALSE, zip |-> "absent", ext |-> "absent", tree |-> EmptyTree]

VARIABLES
    \* file system
    targetExists,   \* os.path.exists(target)
    target,         \* top-level entries of the target directory
    backups,        \* stamp -> the sibling directory <base>_backup_<stamp>
    tmp,            \* the tmpdir of the running session
    orphans,        \* staging directories left behind by earlier sessions
    clock,          \* the second now_stamp() would return
    faults,         \* library calls that have raised so far
    \* the running session (locals of main and of the loops)
    pc, session, action, backup, applied, todo, out,
    \* the session's outcome as the caller sees it
    status, failureStage, clearWarn, mergeWarn,
    \* history
    target0,        \* target entries when the session started
    existed0,       \* whether the target existed when the session started
    removed,        \* names whose content this session removed from the target
    copyFailed,     \* names whose copy failed during merge in this session
    made,           \* stamps of the backup directories this session completed
    steps,          \* the components this session has invoked, in order
    rmtreeFailed,   \* the rmtree of the finally block raised (and was ignored)
    outside,        \* an extraction wrote a file outside its destination directory
    prev            \* summary of the previous session

vars == <<outside, targetExists, target, backups, tmp, orphans, clock, faults,
          pc, session, action, backup, applied, todo, out,
          status, failureStage, clearWarn, mergeWarn,
          target0, existed0, removed, copyFailed, made, steps,
          rmtreeFailed, prev>>

NoPrev == [action |-> "none", status |-> "none", clean |-> FALSE,
           backup |-> None, nonEmpty0 |-> FALSE]

Init ==
    /\ targetExists \in BOOLEAN
    /\ target \in InitTrees
    /\ (~targetExists => target = EmptyTree)
    /\ backups = [s \in Stamps |-> NoBackupDir]
    /\ tmp = NoTmp
    /\ outside = FALSE
    /\ orphans = 0
    /\ clock = 0
    /\ faults = 0
    /\ pc = "idle"
    /\ session = 0
    /\ action = "none"
    /\ backup = None
    /\ applied = <<>>
    /\ todo = {}
    /\ out = <<>>
    /\ status = "none"
    /\ failureStage = "none"
    /\ clearWarn = {}
    /\ mergeWarn = {}
    /\ target0 = target
    /\ existed0 = targetExists
    /\ removed = {}
    /\ copyFailed = {}
    /\ made = {}
    /\ steps = <<>>
    /\ rmtreeFailed = FALSE
    /\ prev = NoPrev

\* a library call raises: the environment's choice, counted against MaxFaults
Fault ==
    /\ faults < MaxFaults
    /\ faults' = faults + 1

\* an exception that leaves main(): the process ends with a traceback
Crash(stage) ==
    /\ pc' = "exit"
    /\ status' = "Failed"
    /\ failureStage' = stage

\* an except block that reports the error without the backup path
Except_NoBackupHint(stage) ==
    /\ pc' = "cleanup"
    /\ status' = "Failed"
    /\ failureStage' = stage
    /\ out' = Append(out, "error")

\* an except block that runs the failed step again
Except_Retry(stage) ==
    /\ pc' = stage
    /\ UNCHANGED <<status, failureStage, out>>

\* the except/finally entry of main's try block (lines 196-199)
Except(stage) ==
    /\ pc' = "cleanup"
    /\ status' = "Failed"
    /\ failureStage' = stage
    /\ out' = IF backup # None
              THEN out \o <<"error", "restore_from_backup">>
              ELSE Append(out, "error")

\* time passes between two runs.  now_stamp() is read once per run and only
\* its equality with the stamp of an existing backup directory matters, so the
\* clock is moved on only from a second that already names a backup directory
Tick ==
    /\ pc \in {"idle", "exit"}
    /\ clock + 1 \in Stamps
    /\ backups[clock].state # "absent"
    /\ clock' = clock + 1
    /\ UNCHANGED <<outside, targetExists, target, backups, tmp, orphans, faults,
                   pc, session, action, backup, applied, todo, out,
                   status, failureStage, clearWarn, mergeWarn,
                   target0, existed0, removed, copyFailed, made, steps, rmtreeFailed, prev>>

\* what the next run remembers of the run that just ended: only runs that
\* ended Done are told apart, a clear-only run by its backup and by whether
\* the target had entries, a patch run by its patch and its warnings
Summary ==
    IF status # "Done" THEN NoPrev
    ELSE IF action = "4"
    THEN [action |-> action, status |-> status, clean |-> (clearWarn = {}),
          backup |-> backup, nonEmpty0 |-> (Present(target0) # {})]
    ELSE [action |-> action, status |-> status,
          clean |-> (clearWarn = {} /\ mergeWarn = {}),
          backup |-> None, nonEmpty0 |-> FALSE]

\* main() is started: prompt_version and prompt_action return
main_start ==
    /\ pc \in {"idle", "exit"}
    /\ session < MaxSessions
    /\ \E a \in Actions : action' = a
    /\ session' = session + 1
    /\ pc' = "resolve"
    /\ prev' = Summary
    /\ orphans' = IF tmp.dir THEN orphans + 1 ELSE orphans
    /\ tmp' = NoTmp
    /\ backup' = None
    /\ applied' = <<>>
    /\ todo' = {}
    /\ out' = <<>>
    /\ status' = "running"
    /\ failureStage' = "none"
    /\ clearWarn' = {}
    /\ mergeWarn' = {}
    /\ target0' = target
    /\ existed0' = targetExists
    /\ removed' = {}
    /\ copyFailed' = {}
    /\ made' = {}
    /\ steps' = <<>>
    /\ rmtreeFailed' = FALSE
    /\ UNCHANGED <<outside, targetExists, target, backups, clock, faults>>

\* main without the make_backup call: the target is cleared unprotected
AfterResolve_SkipBackup == "clear"

\* the first component main invokes once the target is resolved: make_backup
\* (lines 166 and 181), before clear_folder_contents (lines 167 and 182)
AfterResolve == "backup"

\* lines 160-162: create the target when it does not exist
main_resolve ==
    /\ pc = "resolve"
    /\ IF targetExists
       THEN /\ pc' = AfterResolve
            /\ UNCHANGED <<targetExists, status, failureStage, faults>>
       ELSE \E ok \in BOOLEAN :
              IF ok
              THEN /\ targetExists' = TRUE
                   /\ pc' = AfterResolve
                   /\ UNCHANGED <<status, failureStage, faults>>
              ELSE /\ Fault
                   /\ Crash("resolve")
                   /\ UNCHANGED targetExists
    /\ UNCHANGED <<outside, target, backups, tmp, orphans, clock, session, action,
                   backup, applied, todo, out, clearWarn, mergeWarn,
                   target0, existed0, removed, copyFailed, made, steps, rmtreeFailed, prev>>

\* now_stamp(): the clock at second resolution
now_stamp == clock

\* a backup that copies the sub-directories and leaves the loose files out
CopyTree_DirsOnly(t) == [n \in Names |-> IF t[n].kind = "dir" THEN t[n] ELSE Absent]

\* a backup that makes the directory but copies nothing into it
CopyTree_Nothing(t) == EmptyTree

\* what shutil.copytree(folder, backup_path) writes when it completes
CopyTree(t) == t

\* copytree called with dirs_exist_ok=True: an existing backup is written over
DirsExistOk_Yes == TRUE

\* shutil.copytree(folder, backup_path) is called without dirs_exist_ok, so
\* an existing backup_path makes it raise FileExistsError
DirsExistOk == FALSE

\* make_backup's exception swallowed: main goes on to clear the target
AfterBackupError_Continue == "clear"

\* where control goes when make_backup raises: the calls at lines 166 and 181
\* are outside any try, so the exception leaves main
AfterBackupError == "exit"

\* make_backup(target), lines 71-82
make_backup ==
    /\ pc = "backup"
    /\ steps' = Append(steps, "backup")
    /\ IF ~targetExists
       THEN /\ backup' = None
            /\ pc' = "clear"
            /\ out' = Append(out, "skipping_backup")
            /\ UNCHANGED <<backups, made, status, failureStage, faults>>
       ELSE IF backups[now_stamp].state # "absent" /\ ~DirsExistOk
       THEN \* copytree's os.makedirs(dst) raises FileExistsError
            /\ out' = Append(out, "creating_backup")
            /\ pc' = AfterBackupError
            /\ status' = "Failed"
            /\ failureStage' = "backup"
            /\ UNCHANGED <<backups, backup, made, faults>>
       ELSE \E outcome \in {"ok", "nodir", "partial"} :
              \E S \in SUBSET Present(target) :
                 /\ (outcome # "partial" => S = Present(target))
                 /\ IF outcome = "ok"
                    THEN /\ backups' = [backups EXCEPT ![now_stamp] =
                                 [state |-> "complete", tree |-> CopyTree(target)]]
                         /\ backup' = now_stamp
                         /\ made' = made \cup {now_stamp}
                         /\ out' = out \o <<"creating_backup", "backup_complete">>
                         /\ pc' = "clear"
                         /\ UNCHANGED <<status, failureStage, faults>>
                    ELSE /\ Fault
                         /\ backups' = IF outcome = "nodir" THEN backups
                                       ELSE [backups EXCEPT ![now_stamp] =
                                 [state |-> "partial", tree |-> Restrict(target, S)]]
                         /\ out' = Append(out, "creating_backup")
                         /\ pc' = AfterBackupError
                         /\ status' = "Failed"
                         /\ failureStage' = "backup"
                         /\ UNCHANGED <<backup, made>>
    /\ UNCHANGED <<outside, targetExists, target, tmp, orphans, clock, session, action,
                   applied, todo, clearWarn, mergeWarn,
                   target0, existed0, removed, copyFailed, rmtreeFailed, prev>>

\* clear_folder_contents(target), lines 85-90: the existence test and os.listdir
clear_folder_contents ==
    /\ pc = "clear"
    /\ steps' = Append(steps, "clear")
    /\ IF ~targetExists
       THEN /\ targetExists' = TRUE
            /\ pc' = "cleared"
            /\ UNCHANGED <<todo, status, failureStage, faults>>
       ELSE \E ok \in BOOLEAN :
              IF ok
              THEN /\ todo' = Present(target)
                   /\ pc' = "clearing"
                   /\ UNCHANGED <<targetExists, status, failureStage, faults>>
              ELSE /\ Fault
                   /\ Crash("clear")
                   /\ UNCHANGED <<targetExists, todo>>
    /\ UNCHANGED <<outside, target, backups, tmp, orphans, clock, session, action,
                   backup, applied, out, clearWarn, mergeWarn,
                   target0, existed0, removed, copyFailed, made, rmtreeFailed, prev>>

\* a removal that returns without removing anything
Removed_Not(e) == e

\* the entry after shutil.rmtree(path) / os.remove(path) returned normally
Removed(e) == Absent

\* a removal error that ends the loop instead of going on with the next entry
AfterEntryError_Break == "cleared"

\* where control goes after a removal raised: the except of lines 97-98
\* prints a warning and the for loop goes on
AfterEntryError == "clearing"

\* one iteration of the loop of lines 90-98
clear_entry ==
    /\ pc = "clearing"
    /\ \E n \in todo :
         /\ todo' = todo \ {n}
         /\ \E outcome \in {"removed", "kept", "partial"} :
              /\ (outcome = "partial" => target[n].kind = "dir")
              /\ CASE outcome = "removed" ->
                        /\ target' = [target EXCEPT ![n] = Removed(target[n])]
                        /\ removed' = removed \cup {n}
                        /\ UNCHANGED <<clearWarn, faults, pc>>
                   [] outcome = "kept" ->
                        /\ Fault
                        /\ clearWarn' = clearWarn \cup {n}
                        /\ pc' = AfterEntryError
                        /\ UNCHANGED <<target, removed>>
                   [] OTHER ->
                        /\ Fault
                        /\ target' = [target EXCEPT ![n] = Damaged(target[n])]
                        /\ removed' = removed \cup {n}
                        /\ clearWarn' = clearWarn \cup {n}
                        /\ pc' = AfterEntryError
    /\ UNCHANGED <<outside, targetExists, backups, tmp, orphans, clock, session,
                   action, backup, applied, out, status, failureStage,
                   mergeWarn, target0, existed0, copyFailed, made, steps, rmtreeFailed, prev>>

\* the loop of clear_folder_contents has ended (line 99)
clear_done ==
    /\ pc = "clearing"
    /\ todo = {}
    /\ pc' = "cleared"
    /\ UNCHANGED <<outside, targetExists, target, backups, tmp, orphans, clock, faults, session,
                   action, backup, applied, todo, out, status, failureStage,
                   clearWarn, mergeWarn, target0, existed0, removed,
                   copyFailed, made, steps, rmtreeFailed, prev>>

\* a main whose clear-only branch is never taken
ClearOnly_Never(a) == FALSE

\* the test of line 164
ClearOnly(a) == a = "4"

\* main after clear_folder_contents returned: lines 168-172 for action "4",
\* lines 184-185 (tempfile.mkdtemp) for a patch
main_cleared ==
    /\ pc = "cleared"
    /\ IF ClearOnly(action)
       THEN /\ out' = IF backup # None
                      THEN out \o <<"cleared", "backup_located">>
                      ELSE Append(out, "cleared")
            /\ status' = "Done"
            /\ pc' = "exit"
            /\ UNCHANGED <<tmp, failureStage, faults>>
       ELSE \E ok \in BOOLEAN :
              IF ok
              THEN /\ tmp' = [NoTmp EXCEPT !.dir = TRUE]
                   /\ pc' = "fetch"
                   /\ UNCHANGED <<out, status, failureStage, faults>>
              ELSE /\ Fault
                   /\ Crash("staging")
                   /\ UNCHANGED <<tmp, out>>
    /\ UNCHANGED <<outside, targetExists, target, backups, orphans, clock, session,
                   action, backup, applied, todo, clearWarn, mergeWarn,
                   target0, existed0, removed, copyFailed, made, steps, rmtreeFailed, prev>>

\* the content-length header of the response: absent, or a text over these
\* characters ("sup2" is U+00B2 SUPERSCRIPT TWO, which latin-1 headers can hold)
Chars == {"0", "5", "a", "sup2"}
RECURSIVE Texts(_)
Texts(k) == IF k = 0 THEN {<<>>}
            ELSE Texts(k - 1) \cup {Append(t, c) : t \in Texts(k - 1), c \in Chars}
Headers == {[present |-> FALSE, text |-> <<>>]} \cup
           {[present |-> TRUE, text |-> t] : t \in Texts(MaxHeaderLen)}

\* str.isdigit(): every character has the Unicode digit property, which the
\* superscripts have too
IsDigit(t) == Len(t) > 0 /\ \A i \in 1..Len(t) : t[i] \in {"0", "5", "sup2"}
\* int(): decimal digits only
IntOk(t) == \A i \in 1..Len(t) : t[i] \in {"0", "5"}
DigitVal(c) == IF c = "5" THEN 5 ELSE 0
RECURSIVE IntOf(_)
IntOf(t) == IF t = <<>> THEN 0
            ELSE IntOf(SubSeq(t, 1, Len(t) - 1)) * 10 + DigitVal(t[Len(t)])

\* int(total) raised ValueError
ValueError == -2

\* lines 105-106: total = int(total) if total and total.isdigit() else None
ParseTotal(h) ==
    IF h.present /\ h.text # <<>> /\ IsDigit(h.text)
    THEN IF IntOk(h.text) THEN IntOf(h.text) ELSE ValueError
    ELSE None

\* `if total:` of lines 114 and 118
Truthy(total) == total # None /\ total # 0

\* lines 114-115: the percentage printed after a chunk, None when none is
Progress(downloaded, total) ==
    IF Truthy(total) THEN (downloaded * 100) \div total ELSE None

\* the values line 106 can leave in `total` (or raise) over all the headers
Totals == {ParseTotal(h) : h \in Headers}

\* download_zip(url, zip_path), lines 101-121, called at line 187
download_zip ==
    /\ pc = "fetch"
    /\ steps' = Append(steps, "fetch")
    /\ \E outcome \in {"ok", "early", "mid"} :
         IF outcome = "early"
         THEN \* requests.get, raise_for_status or open() raises
              /\ Fault
              /\ Except("fetch")
              /\ UNCHANGED tmp
         ELSE \E total \in Totals :
                CASE total = ValueError ->
                       \* int(total) raises before the file is opened
                       /\ Except("fetch")
                       /\ UNCHANGED <<tmp, faults>>
                  [] total # ValueError /\ outcome = "ok" ->
                       /\ \A downloaded \in 1..MaxBody :
                            Progress(downloaded, total) \in Nat \cup {None}
                       /\ tmp' = [tmp EXCEPT !.zip = "complete"]
                       /\ pc' = "extract"
                       /\ out' = Append(out, "download_complete")
                       /\ UNCHANGED <<status, failureStage, faults>>
                  [] OTHER ->
                       \* the stream or f.write raises after some chunks
                       /\ Fault
                       /\ \E got \in 1..MaxBody :
                            Progress(got, total) \in Nat \cup {None}
                       /\ tmp' = [tmp EXCEPT !.zip = "partial"]
                       /\ Except("fetch")
    /\ UNCHANGED <<outside, targetExists, target, backups, orphans, clock, session,
                   action, backup, applied, todo, clearWarn, mergeWarn,
                   target0, existed0, removed, copyFailed, made, rmtreeFailed, prev>>

\* extract_zip(zip_path, extract_dir), lines 123-128, called at line 189
extract_zip ==
    /\ pc = "extract"
    /\ steps' = Append(steps, "extract")
    /\ \E outcome \in {"ok", "bad", "partial"} :
         CASE outcome = "ok" ->
                /\ tmp' = [tmp EXCEPT !.ext = "complete",
                                      !.tree = ExtractAll(ZipMembers(action))]
                /\ outside' = (outside \/ WroteOutside(ZipMembers(action)))
                /\ pc' = "merge"
                /\ out' = Append(out, "extracted")
                /\ UNCHANGED <<status, failureStage, faults>>
           [] outcome = "bad" ->
                \* zipfile.ZipFile raises BadZipFile
                /\ Fault
                /\ Except("extract")
                /\ UNCHANGED <<tmp, outside>>
           [] OTHER ->
                \* extractall raises after writing some members
                /\ Fault
                /\ \E M \in SUBSET ZipMembers(action) :
                     /\ tmp' = [tmp EXCEPT !.ext = "partial", !.tree = ExtractAll(M)]
                     /\ outside' = (outside \/ WroteOutside(M))
                /\ Except("extract")
    /\ UNCHANGED <<targetExists, target, backups, orphans, clock, session,
                   action, backup, applied, todo, clearWarn, mergeWarn,
                   target0, existed0, removed, copyFailed, made, rmtreeFailed, prev>>

\* copy_top_level_folders(extract_dir, target), lines 131-132: os.listdir
copy_top_level_folders ==
    /\ pc = "merge"
    /\ steps' = Append(steps, "merge")
    /\ \E ok \in BOOLEAN :
         IF ok
         THEN /\ todo' = Present(tmp.tree)
              /\ applied' = <<>>
              /\ pc' = "merging"
              /\ UNCHANGED <<out, status, failureStage, faults>>
         ELSE /\ Fault
              /\ Except("merge")
              /\ UNCHANGED <<todo, applied>>
    /\ UNCHANGED <<outside, targetExists, target, backups, tmp, orphans, clock, session,
                   action, backup, clearWarn, mergeWarn,
                   target0, existed0, removed, copyFailed, made, rmtreeFailed, prev>>

\* copytree placed in an else branch: an entry that was there is removed and
\* not copied again
CopiedDir_OnlyIfNew(dst, src) == IF dst = Absent THEN src ELSE Absent

\* the target entry after lines 136-144 ran without raising: the existing
\* entry dst (if any) was removed and the directory src copied in its place
CopiedDir(dst, src) == src

\* the target entry after shutil.copy2(src, dst) returned (line 149): a new
\* or overwritten file, or, when dst is a directory, that directory with the
\* file put inside it
CopiedFile(dst, src) == IF dst.kind = "dir" THEN Damaged(dst) ELSE src

\* copytree moved inside a try block: a failed directory copy is skipped
DirCopyErrorCaught_Yes == TRUE

\* whether a failed copy of a directory entry is caught inside the loop:
\* shutil.copytree at line 144 is outside the try blocks of lines 137 and 148
DirCopyErrorCaught == FALSE

\* one iteration of the loop of lines 132-152
copy_entry ==
    /\ pc = "merging"
    /\ \E n \in todo :
       LET src == tmp.tree[n]
           dst == target[n]
       IN
       /\ todo' = todo \ {n}
       /\ IF src.kind = "dir"
          THEN \E rm \in {"removed", "kept", "partial"}, cp \in {"ok", "nothing", "partial"} :
                 LET tried == dst # Absent
                     d1 == IF ~tried THEN Absent
                           ELSE CASE rm = "removed" -> Removed(dst)
                                  [] rm = "kept" -> dst
                                  [] OTHER -> Damaged(dst)
                     warned == tried /\ rm # "removed"
                     copied == d1 = Absent /\ cp = "ok"
                     d2 == IF d1 # Absent THEN d1
                           ELSE CASE cp = "ok" -> CopiedDir(dst, src)
                                  [] cp = "nothing" -> Absent
                                  [] OTHER -> Damaged(src)
                 IN
                 /\ (rm = "partial" => dst.kind = "dir")
                 /\ (~tried => rm = "removed")
                 /\ (d1 # Absent => cp = "nothing")
                 /\ IF warned \/ cp # "ok" THEN Fault ELSE UNCHANGED faults
                 /\ target' = [target EXCEPT ![n] = d2]
                 /\ removed' = IF tried /\ rm # "kept" THEN removed \cup {n} ELSE removed
                 /\ mergeWarn' = IF warned \/ (~copied /\ DirCopyErrorCaught)
                                 THEN mergeWarn \cup {n} ELSE mergeWarn
                 /\ copyFailed' = IF copied THEN copyFailed ELSE copyFailed \cup {n}
                 /\ IF copied
                    THEN /\ applied' = Append(applied, n)
                         /\ UNCHANGED <<pc, status, failureStage, out>>
                    ELSE IF DirCopyErrorCaught
                    THEN UNCHANGED <<applied, pc, status, failureStage, out>>
                    ELSE /\ Except("merge")
                         /\ UNCHANGED applied
          ELSE \E cp \in {"ok", "nothing", "partial"} :
                 /\ (cp = "partial" => dst.kind # "dir")
                 /\ IF cp # "ok" THEN Fault ELSE UNCHANGED faults
                 /\ target' = [target EXCEPT ![n] =
                                  CASE cp = "ok" -> CopiedFile(dst, src)
                                    [] cp = "nothing" -> dst
                                    [] OTHER -> Damaged(src)]
                 /\ removed' = IF dst # Absent /\ dst.kind # "dir" /\ cp # "nothing"
                               THEN removed \cup {n} ELSE removed
                 /\ mergeWarn' = IF cp = "ok" THEN mergeWarn ELSE mergeWarn \cup {n}
                 /\ copyFailed' = IF cp = "ok" THEN copyFailed ELSE copyFailed \cup {n}
                 /\ UNCHANGED <<applied, pc, status, failureStage, out>>
    /\ UNCHANGED <<outside, targetExists, backups, tmp, orphans, clock, session, action,
                   backup, clearWarn, target0, existed0, made, steps, rmtreeFailed, prev>>

\* the loop has ended; main lines 192-195
merge_done ==
    /\ pc = "merging"
    /\ todo = {}
    /\ out' = IF backup # None
              THEN out \o <<"applied_count", "backup_available", "success">>
              ELSE out \o <<"applied_count", "success">>
    /\ status' = "Done"
    /\ pc' = "cleanup"
    /\ UNCHANGED <<outside, targetExists, target, backups, tmp, orphans, clock, faults, session,
                   action, backup, applied, todo, failureStage, clearWarn,
                   mergeWarn, target0, existed0, removed, copyFailed, made, steps, rmtreeFailed, prev>>

\* a finally block that removes nothing
Rmtree_Noop(t, ok) == t

\* the staging directory after shutil.rmtree(tmpdir, ignore_errors=True):
\* gone when the removal worked, still there when it raised and was ignored
RmtreeIgnoreErrors(t, ok) == IF ok THEN NoTmp ELSE t

\* the finally block, line 201
main_cleanup ==
    /\ pc = "cleanup"
    /\ \E ok \in BOOLEAN :
         /\ tmp' = RmtreeIgnoreErrors(tmp, ok)
         /\ rmtreeFailed' = ~ok
         /\ IF ok THEN UNCHANGED faults ELSE Fault
    /\ steps' = Append(steps, "cleanup")
    /\ pc' = "exit"
    /\ UNCHANGED <<outside, targetExists, target, backups, orphans, clock, session,
                   action, backup, applied, todo, out, status, failureStage,
                   clearWarn, mergeWarn, target0, existed0, removed,
                   copyFailed, made, prev>>

Next ==
    \/ Tick
    \/ main_start
    \/ main_resolve
    \/ make_backup
    \/ clear_folder_contents
    \/ clear_entry
    \/ clear_done
    \/ main_cleared
    \/ download_zip
    \/ extract_zip
    \/ copy_top_level_folders
    \/ copy_entry
    \/ merge_done
    \/ main_cleanup

Spec == Init /\ [][Next]_vars

\* ------------------------------------------------------------------ claims
AppliedSet == {applied[i] : i \in 1..Len(applied)}
Ran(step) == \E i \in 1..Len(steps) : steps[i] = step
TimesRan(step) == Cardinality({i \in 1..Len(steps) : steps[i] = step})
ArchiveDirs(a) == {n \in Names : Archive(a)[n].kind = "dir"}
ArchiveFiles(a) == {n \in Names : Archive(a)[n].kind = "file"}
IsApply == action \in PatchKeys
\* the session's BackupRecord: a completed copy of the target as it was when
\* the session started
HasBackupRecord ==
    /\ backup # None
    /\ backups[backup].state = "complete"
    /\ backups[backup].tree = target0

\* C1: when the target existed before the run, no entry under the target has
\* been removed while the session's BackupRecord is absent
C1_BackupBeforeRemoval ==
    (existed0 /\ removed # {}) => HasBackupRecord

C1_Witness ==
    /\ existed0
    /\ pc = "clearing"
    /\ removed # {}
    /\ todo # {}

\* C2: when the target did not exist before the run, no BackupRecord is
\* produced (backup = None, no backup directory made), the target is created,
\* and the session ends Done (for a patch, with no later step failing, with the
\* archive's top-level folder names applied)
C2_AbsentTargetNoBackup ==
    (session > 0 /\ ~existed0) =>
        /\ backup = None
        /\ made = {}
        /\ (pc = "exit" /\ faults = 0 =>
               /\ targetExists
               /\ status = "Done"
               /\ (IsApply => AppliedSet = ArchiveDirs(action)))

\* C3: when the backup copy cannot complete, the session aborts before any
\* destructive step: the target is as it was at session start, and neither
\* clear nor fetch, extract or merge is invoked
C3_BackupFailureAborts ==
    failureStage = "backup" =>
        /\ pc = "exit"
        /\ status = "Failed"
        /\ target = target0
        /\ removed = {}
        /\ steps = <<"backup">>
        /\ ~tmp.dir
        /\ applied = <<>>

C3_Witness ==
    /\ failureStage = "backup"
    /\ Present(target0) # {}
    /\ backups[clock].state = "partial"

\* C4 as stated: in every terminal state no staging directory made by the
\* session still exists
C4_Original ==
    pc = "exit" => ~tmp.dir

\* C4 as amended: on every exit after the staging directory was made its
\* removal has been attempted, and the directory is gone unless that removal
\* itself raised (the error is ignored); exits before it was made leave none
C4_StagingCleanupBestEffort ==
    /\ (pc = "exit" => (tmp.dir <=> rmtreeFailed))
    /\ (pc = "exit" /\ Ran("fetch") => Ran("cleanup"))
    /\ (rmtreeFailed => Ran("cleanup"))

C4_Witness ==
    /\ pc = "exit"
    /\ failureStage = "extract"
    /\ Ran("cleanup")
    /\ ~tmp.dir

\* C5: in a patch session a failure of fetch, extract or merge ends the
\* session Failed at that stage, no later pipeline step runs, the BackupRecord
\* stays present and unchanged and its path is printed with the failure; after
\* a failed fetch the staging directory is removed (when the removal of the
\* finally block does not itself raise)
C5_PipelineFailure ==
    failureStage \in {"fetch", "extract", "merge"} =>
        /\ IsApply
        /\ status = "Failed"
        /\ pc \in {"cleanup", "exit"}
        /\ steps \in {<<"backup", "clear">> \o tail :
                        tail \in { <<"fetch">>, <<"fetch", "cleanup">>,
                                   <<"fetch", "extract">>,
                                   <<"fetch", "extract", "cleanup">>,
                                   <<"fetch", "extract", "merge">>,
                                   <<"fetch", "extract", "merge", "cleanup">> }}
        /\ steps[IF pc = "exit" THEN Len(steps) - 1 ELSE Len(steps)] = failureStage
        /\ HasBackupRecord
        /\ out[Len(out)] = "restore_from_backup"
        /\ (failureStage = "fetch" /\ pc = "exit" /\ ~rmtreeFailed => ~tmp.dir)

C5_Witness ==
    /\ failureStage = "fetch"
    /\ pc = "exit"
    /\ tmp = NoTmp
    /\ Present(target0) # {}

\* C6 as stated: when one top-level entry of the extraction root (file or
\* directory) fails to copy, the merge goes on and the session ends Done with
\* one warning, the applied names being every other directory entry
C6_Original ==
    (pc = "exit" /\ Cardinality(copyFailed) = 1 /\ clearWarn = {}
       /\ ~rmtreeFailed) =>
        /\ status = "Done"
        /\ Cardinality(mergeWarn) = 1
        /\ AppliedSet = ArchiveDirs(action) \ copyFailed

\* C6 as amended: when the entries that fail to copy are files, the merge goes
\* on and the session ends Done with one warning per failed file, the applied
\* names being every directory entry; a directory entry that fails to copy
\* ends the session Failed at the merge stage
C6_FileCopyFailureIsWarning ==
    (pc = "exit" /\ copyFailed # {}) =>
        IF copyFailed \subseteq ArchiveFiles(action)
        THEN /\ status = "Done"
             /\ mergeWarn = copyFailed
             /\ AppliedSet = ArchiveDirs(action)
        ELSE /\ status = "Failed"
             /\ failureStage = "merge"
             /\ AppliedSet \subseteq ArchiveDirs(action) \ copyFailed

C6_Witness ==
    /\ pc = "exit"
    /\ status = "Done"
    /\ Cardinality(copyFailed) = 1
    /\ Cardinality(mergeWarn) = 1
    /\ Len(applied) = 1

\* C7: a session completes at most one backup directory, exactly one once it
\* is past the backup step, and a completed backup directory is never changed
\* or deleted afterwards, by this session or a later one
C7_BackupOnceAndImmutable ==
    /\ [](/\ Cardinality(made) <= 1
          /\ (Ran("clear") => Cardinality(made) = 1)
          /\ (made # {} => made = {backup}))
    /\ [][\A s \in Stamps : backups[s].state = "complete" => backups'[s] = backups[s]]_vars

C7_Witness ==
    /\ session = 2
    /\ removed # {}
    /\ made # {}
    /\ \E s \in Stamps \ made : backups[s].state = "complete"

\* C8: after a patch session that ends Done without warnings on a target that
\* had entries, the backup holds the initial entries, every initial entry was
\* removed from the target, the target holds exactly the archive's top-level
\* entries and applied has one name per top-level folder of the archive
C8_ApplyOnPopulatedTarget ==
    (pc = "exit" /\ IsApply /\ status = "Done" /\ Present(target0) # {}
       /\ clearWarn = {} /\ mergeWarn = {}) =>
        /\ HasBackupRecord
        /\ Present(target0) \subseteq removed
        /\ target = Archive(action)
        /\ Len(applied) = Cardinality(ArchiveDirs(action))
        /\ AppliedSet = ArchiveDirs(action)

C8_Witness ==
    /\ pc = "exit"
    /\ action = "1"
    /\ status = "Done"
    /\ target0["vanilla"] = Dir(0)
    /\ backups[backup].tree["vanilla"] = Dir(0)
    /\ target = Archive("1")

\* C9: a patch applied again on the result of applying it leaves the same
\* directory tree, also when entries of the first application survive the
\* clear step and are merged over
C9_MergeIdempotent ==
    (pc = "exit" /\ IsApply /\ status = "Done" /\ mergeWarn = {}
       /\ prev.status = "Done" /\ prev.action = action /\ prev.clean) =>
        /\ target0 = Archive(action)
        /\ target = target0

C9_Witness ==
    /\ pc = "exit"
    /\ action = "1"
    /\ status = "Done"
    /\ prev.status = "Done"
    /\ prev.action = "1"
    /\ prev.clean
    /\ clearWarn = {"packA", "notes"}
    /\ target = Archive("1")

\* C10 as stated: two clear-only runs in succession each leave the target
\* empty, a BackupRecord is produced only by a run that found entries in the
\* target, and two BackupRecords are distinct
C10_Original ==
    (pc = "exit" /\ action = "4" /\ status = "Done" /\ clearWarn = {}
       /\ prev.action = "4" /\ prev.clean) =>
        /\ Present(target) = {}
        /\ Present(target0) = {}
        /\ (backup # None => Present(target0) # {})
        /\ (prev.backup # None => prev.nonEmpty0)
        /\ (backup # None /\ prev.backup # None => backup # prev.backup)

\* C10 as amended: two clear-only runs in succession (no removal failing) each
\* leave the target empty, and each run produces a BackupRecord, also the run
\* that finds the target empty; the two BackupRecords are distinct
C10_ClearTwice ==
    (pc = "exit" /\ action = "4" /\ status = "Done" /\ clearWarn = {}
       /\ prev.action = "4" /\ prev.clean) =>
        /\ Present(target) = {}
        /\ Present(target0) = {}
        /\ HasBackupRecord
        /\ prev.backup # None
        /\ backups[prev.backup].state = "complete"
        /\ backup # prev.backup

C10_Witness ==
    /\ pc = "exit"
    /\ action = "4"
    /\ status = "Done"
    /\ prev.action = "4"
    /\ prev.nonEmpty0
    /\ prev.clean
    /\ backup # None
    /\ backups[backup].tree = EmptyTree
    /\ Present(backups[prev.backup].tree) # {}

\* the order in which main calls the components (lines 181-191)
Pipeline == <<"backup", "clear", "fetch", "extract", "merge">>
IsPrefix(s, t) == Len(s) <= Len(t) /\ \A i \in 1..Len(s) : s[i] = t[i]
Printed(tag) == \E i \in 1..Len(out) : out[i] = tag

\* C11: in every failing session the caller is told whether a backup exists
\* (and where) before being told about the failure
C11_ToldBeforeFailure ==
    status = "Failed" =>
        \E i \in 1..Len(out) :
            /\ out[i] \in {"backup_complete", "skipping_backup"}
            /\ \A j \in 1..Len(out) : out[j] = "error" => i < j

\* C12: clearing an existing target goes on past every child whose removal
\* fails: each such child is recorded as a warning, every other child is
\* removed, the clear does not fail and the session reaches Cleared
C12_ClearBestEffort ==
    /\ (pc = "clearing" =>
           /\ status = "running"
           /\ \A n \in Present(target0) \ (todo \cup clearWarn) : target[n] = Absent)
    /\ (pc = "cleared" /\ Ran("clear") =>
           /\ status = "running"
           /\ todo = {}
           /\ clearWarn \subseteq Present(target0)
           /\ \A n \in clearWarn : target[n] # Absent
           /\ \A n \in Present(target0) \ clearWarn : target[n] = Absent)

C12_Witness ==
    /\ pc = "cleared"
    /\ Cardinality(clearWarn) = 1
    /\ removed \ clearWarn # {}

\* C13: a directory of the extraction root replaces the entry of the same
\* name under the target and is recorded as applied, also when that entry is
\* one that survived the clear step; such a survivor does not make the session
\* fail
C13_SurvivorReplaced ==
    (/\ pc = "exit"
     /\ IsApply
     /\ Ran("merge")
     /\ clearWarn \cap ArchiveDirs(action) # {}
     /\ failureStage \in {"none", "merge"}
     /\ (failureStage = "merge" => copyFailed # {})
     /\ copyFailed \subseteq mergeWarn) =>
        /\ status = "Done"
        /\ \A n \in ArchiveDirs(action) :
              target[n] = Archive(action)[n] /\ n \in AppliedSet

\* C14: the backup directory is the sibling named by the second-resolution
\* stamp; when that name exists already the backup fails, the existing
\* directory is left as it is and the session removes nothing from the target
C14_CollisionIsFailure ==
    /\ [][(pc = "backup" /\ targetExists /\ backups[now_stamp].state # "absent") =>
            /\ backups' = backups
            /\ target' = target
            /\ backup' = None
            /\ status' = "Failed"
            /\ failureStage' = "backup"
            /\ pc' = "exit"]_vars
    /\ [](failureStage = "backup" => (pc = "exit" /\ removed = {} /\ target = target0))

C14_Witness ==
    /\ session = 2
    /\ failureStage = "backup"
    /\ faults = 0
    /\ made = {}
    /\ backups[clock].state = "complete"
    /\ Present(target) # {}

\* C15: the components run in the order backup, clear, fetch, extract, merge,
\* each at most once and none again after a failure; clear starts only with
\* the backup completed, extract only with the download complete, merge only
\* with the extraction complete
C15_SequentialOnce ==
    LET core == IF Ran("cleanup") THEN SubSeq(steps, 1, Len(steps) - 1) ELSE steps
    IN /\ IsPrefix(core, Pipeline)
       /\ (Ran("cleanup") => steps[Len(steps)] = "cleanup" /\ Len(core) >= 3)
       /\ (Ran("clear") => backup # None /\ backups[backup].state = "complete")
       /\ (Ran("extract") /\ ~Ran("cleanup") => tmp.zip = "complete")
       /\ (Ran("merge") /\ ~Ran("cleanup") => tmp.ext = "complete")
       /\ (status = "Failed" => pc \in {"cleanup", "exit"})

C15_Witness ==
    /\ steps = Pipeline \o <<"cleanup">>
    /\ status = "Done"
    /\ pc = "exit"

\* C16: a clear-only run ends Done right after the clear: it never fetches,
\* extracts or merges, makes no staging directory, and reports the backup it
\* made
C16_ClearOnlyTerminal ==
    /\ [](action = "4" =>
            /\ IsPrefix(steps, <<"backup", "clear">>)
            /\ tmp = NoTmp
            /\ applied = <<>>
            /\ (status = "Done" =>
                   /\ pc = "exit"
                   /\ steps = <<"backup", "clear">>
                   /\ (backup # None =>
                          HasBackupRecord /\ out[Len(out)] = "backup_located")))
    /\ [][(action = "4" /\ pc = "cleared") => (pc' = "exit" /\ status' = "Done")]_vars

C16_Witness ==
    /\ action = "4"
    /\ status = "Done"
    /\ clearWarn # {}
    /\ out[Len(out)] = "backup_located"

\* C17: when the target cannot be listed at all the session is Failed at the
\* clear stage, no fetch, extract or merge runs, and the failure is reported
\* with the path of the backup that was taken
C17_ClearFailureSurfaced ==
    failureStage = "clear" =>
        /\ status = "Failed"
        /\ pc = "exit"
        /\ steps = <<"backup", "clear">>
        /\ ~tmp.dir
        /\ (backup # None => out[Len(out)] = "restore_from_backup")

\* C20: every entry the target had when the session started is, in every
\* state of the session, still under the target or in the session's backup;
\* nothing but the clear and merge loops writes to the target, so after a
\* failure the removed content is in the backup only
C20_NoDataLoss ==
    /\ [](\A n \in Present(target0) :
            \/ target[n] = target0[n]
            \/ /\ backup # None
               /\ backups[backup].state = "complete"
               /\ backups[backup].tree[n] = target0[n])
    /\ [][target' # target => (pc \in {"clearing", "merging"} /\ status = "running")]_vars

C20_Witness ==
    /\ status = "Failed"
    /\ failureStage = "merge"
    /\ pc = "exit"
    /\ \E n \in Present(target0) : target[n] # target0[n] /\ target0[n].kind = "file"

\* the archive has a member whose stored path resolves outside the directory
\* it is extracted into
HasTraversal(a) == \E m \in ZipMembers(a) : Escapes(m.path)

\* C18 as stated: an archive with a member whose path resolves outside
\* destinationDir is rejected: the extraction fails and the session is Failed
\* at the extract stage
C18_Original ==
    (IsApply /\ HasTraversal(action) /\ Ran("extract")) =>
        (status = "Failed" /\ failureStage = "extract")

\* C18 (amended): extraction never writes outside its destination; a member
\* whose stored path is absolute or climbs with ".." is not rejected but
\* written inside the destination under its path without those components,
\* and extraction fails only when a library call raises
C18_TraversalSanitized ==
    /\ ~outside
    /\ (tmp.ext = "complete" =>
           \A m \in ZipMembers(action) :
               tmp.tree[Sanitize(m.path)[1]] = m.entry)
    /\ (failureStage = "extract" => faults > 0)
    /\ (pc = "merge" => status = "running")

C18_Witness ==
    /\ action = "3"
    /\ HasTraversal(action)
    /\ pc = "merge"
    /\ faults = 0
    /\ tmp.ext = "complete"
    /\ tmp.tree["notes"] = File(3)

\* C19: whatever content-length the server reports, the fetch ends as it does
\* with none reported: when no library call fails the download completes
C19_ProgressAdvisory ==
    (Ran("fetch") /\ pc # "fetch" /\ faults = 0) =>
        (failureStage # "fetch" /\ (~Ran("cleanup") => tmp.zip = "complete"))

====
